---- MODULE Spec2Model ----
(***************************************************************************)
(* A model of the two scripts of the repository:                           *)
(*   interface-complexity-check.py  (protocol / naming / implementation    *)
(*                                   complexity report)                    *)
(*   linus-data-converter.py        (reshape of a JSON record list)        *)
(* Text is a sequence of one-character strings; the regular expressions of *)
(* the scripts are computed character by character, as Python's re module  *)
(* matches them (leftmost, greedy, non-overlapping findall).               *)
(***************************************************************************)
EXTENDS Integers, Sequences, FiniteSets, TLC

\* ------------------------------------------------------------------------
\* Character classes of Python's re: \s and \w
\* ------------------------------------------------------------------------
SpaceChars == {" ", "\n", "\t"}

WordChars ==
  {"a","b","c","d","e","f","g","h","i","j","k","l","m","n","o","p","q","r",
   "s","t","u","v","w","x","y","z","A","B","C","D","E","F","G","H","I","J",
   "K","L","M","N","O","P","Q","R","S","T","U","V","W","X","Y","Z","0","1",
   "2","3","4","5","6","7","8","9","_"}

IsSpace(c) == c \in SpaceChars

IsWord(c) == c \in WordChars

\* the literals of the patterns
KwProtocol == <<"p","r","o","t","o","c","o","l">>

KwFunc == <<"f","u","n","c">>

KwIf == <<"i","f">>

KwFor == <<"f","o","r">>

KwGuard == <<"g","u","a","r","d">>

\* ------------------------------------------------------------------------
\* Matching primitives (1-based index i into the text s)
\* ------------------------------------------------------------------------
\* a literal of the pattern matches at position i
StartsWith(s, i, lit) ==
  /\ i + Len(lit) - 1 <= Len(s)
  /\ \A k \in 1..Len(lit) : s[i + k - 1] = lit[k]

RECURSIVE SpanSpace(_, _)
\* \s* from i, greedy: the first index at or after i that is not whitespace
SpanSpace(s, i) ==
  IF i <= Len(s) /\ IsSpace(s[i]) THEN SpanSpace(s, i + 1) ELSE i

RECURSIVE SpanWord(_, _)
\* \w* from i, greedy: the first index at or after i that is not a word character
SpanWord(s, i) ==
  IF i <= Len(s) /\ IsWord(s[i]) THEN SpanWord(s, i + 1) ELSE i

RECURSIVE FindChar(_, _, _)
\* [^c]*c from i: the index of the first c at or after i, 0 when there is none
FindChar(s, i, c) ==
  IF i > Len(s) THEN 0
  ELSE IF s[i] = c THEN i
  ELSE FindChar(s, i + 1, c)

Slice(s, a, b) == IF a > b THEN <<>> ELSE SubSeq(s, a, b)

\* ------------------------------------------------------------------------
\* protocol\s+(\w+)[^{]*\{([^}]*)\}      (re.DOTALL)
\* ------------------------------------------------------------------------
MatchProtocolAt(s, i) ==
  LET a == i + Len(KwProtocol)
      b == SpanSpace(s, a)
      c == SpanWord(s, b)
      ob == IF c > b THEN FindChar(s, c, "{") ELSE 0
      cb == IF ob > 0 THEN FindChar(s, ob + 1, "}") ELSE 0
  IN IF StartsWith(s, i, KwProtocol) /\ b > a /\ c > b /\ ob > 0 /\ cb > 0
     THEN [ok |-> TRUE, name |-> Slice(s, b, c - 1),
           body |-> Slice(s, ob + 1, cb - 1), end |-> cb]
     ELSE [ok |-> FALSE, name |-> <<>>, body |-> <<>>, end |-> i]

RECURSIVE FindAllProtocols(_, _)
\* re.findall(protocol_pattern, content, re.DOTALL): (name, body) pairs in order
FindAllProtocols(s, i) ==
  IF i > Len(s) THEN <<>>
  ELSE LET m == MatchProtocolAt(s, i)
       IN IF m.ok
          THEN <<[name |-> m.name, body |-> m.body]>> \o FindAllProtocols(s, m.end + 1)
          ELSE FindAllProtocols(s, i + 1)

\* ------------------------------------------------------------------------
\* func\s+(\w+)\s*\([^)]*\)
\* ------------------------------------------------------------------------
MatchMethodAt(s, i) ==
  LET a == i + Len(KwFunc)
      b == SpanSpace(s, a)
      c == SpanWord(s, b)
      d == SpanSpace(s, c)
      op == IF c > b /\ d <= Len(s) /\ s[d] = "(" THEN d ELSE 0
      cp == IF op > 0 THEN FindChar(s, op + 1, ")") ELSE 0
  IN IF StartsWith(s, i, KwFunc) /\ b > a /\ c > b /\ op > 0 /\ cp > 0
     THEN [ok |-> TRUE, name |-> Slice(s, b, c - 1), end |-> cp]
     ELSE [ok |-> FALSE, name |-> <<>>, end |-> i]

RECURSIVE FindAllMethods(_, _)
\* re.findall(method_pattern, protocol_body): the method names in order
FindAllMethods(s, i) ==
  IF i > Len(s) THEN <<>>
  ELSE LET m == MatchMethodAt(s, i)
       IN IF m.ok THEN <<m.name>> \o FindAllMethods(s, m.end + 1)
          ELSE FindAllMethods(s, i + 1)

\* ------------------------------------------------------------------------
\* func\s+{method}\s*\(([^)]*)\)   with re.search: the first match in the body
\* ------------------------------------------------------------------------
MatchMethodDefAt(s, i, method) ==
  LET a == i + Len(KwFunc)
      b == SpanSpace(s, a)
      c == b + Len(method)
      d == SpanSpace(s, c)
      op == IF d <= Len(s) /\ s[d] = "(" THEN d ELSE 0
      cp == IF op > 0 THEN FindChar(s, op + 1, ")") ELSE 0
  IN IF StartsWith(s, i, KwFunc) /\ b > a /\ StartsWith(s, b, method)
        /\ op > 0 /\ cp > 0
     THEN [ok |-> TRUE, group1 |-> Slice(s, op + 1, cp - 1)]
     ELSE [ok |-> FALSE, group1 |-> <<>>]

RECURSIVE SearchMethodDef(_, _, _)
SearchMethodDef(s, i, method) ==
  IF i > Len(s) THEN [ok |-> FALSE, group1 |-> <<>>]
  ELSE LET m == MatchMethodDefAt(s, i, method)
       IN IF m.ok THEN m ELSE SearchMethodDef(s, i + 1, method)

\* ------------------------------------------------------------------------
\* str.strip, str.split(','), and the parameter count
\* ------------------------------------------------------------------------
RECURSIVE RStripEnd(_, _)
\* the last index at or before j that is not whitespace (0 when there is none)
RStripEnd(s, j) ==
  IF j >= 1 /\ IsSpace(s[j]) THEN RStripEnd(s, j - 1) ELSE j

Strip(s) == Slice(s, SpanSpace(s, 1), RStripEnd(s, Len(s)))

RECURSIVE Split(_, _, _)
\* s.split(c) from index i: the segments between the separators
Split(s, i, c) ==
  LET j == FindChar(s, i, c)
  IN IF j = 0 THEN <<Slice(s, i, Len(s))>>
     ELSE <<Slice(s, i, j - 1)>> \o Split(s, j + 1, c)

\* len([p for p in params_str.split(',') if p.strip()])
NonEmptySegments(params_str) ==
  LET segs == Split(params_str, 1, ",")
  IN Cardinality({k \in 1..Len(segs) : Strip(segs[k]) # <<>>})

ParamCount(group1) ==
  LET params_str == Strip(group1)
  IN IF params_str = <<>> THEN 0 ELSE NonEmptySegments(params_str)

\* ------------------------------------------------------------------------
\* The report: one record per printed line (or per message set)
\* ------------------------------------------------------------------------
Line(kind, name, file, n, m, ok) ==
  [kind |-> kind, name |-> name, file |-> file, n |-> n, m |-> m, ok |-> ok]

Plain(kind) == Line(kind, <<>>, "", 0, 0, TRUE)

\* the thresholds of the rules
MethodLimit == 5

ParamLimit == 3

ComplexityLimit == 20

SimpleNameLen == 6

\* if method_count > 5: all_passed = False
AfterCountVerdict(all_passed, method_count) ==
  IF method_count > MethodLimit THEN FALSE ELSE all_passed

\* a variant that keeps only the last verdict instead of the conjunction
AfterParamVerdict_LastWins(all_passed, param_count) ==
  ~(param_count > ParamLimit)

\* if param_count > 3: all_passed = False
AfterParamVerdict(all_passed, param_count) ==
  IF param_count > ParamLimit THEN FALSE ELSE all_passed

CountVerdictLine(method_count) ==
  IF method_count > MethodLimit
  THEN Line("count_fail", <<>>, "", method_count, MethodLimit, FALSE)
  ELSE Line("count_pass", <<>>, "", method_count, MethodLimit, TRUE)

ParamVerdictLine(method, param_count) ==
  Line("param", method, "", param_count, ParamLimit, ~(param_count > ParamLimit))

RECURSIVE MethodsLoop(_, _, _, _)
\* for method in methods: ... ; acc = [lines, all_passed]
MethodsLoop(protocol_body, methods, k, acc) ==
  IF k > Len(methods) THEN acc
  ELSE LET method == methods[k]
           method_match == SearchMethodDef(protocol_body, 1, method)
           param_count == ParamCount(method_match.group1)
       IN IF method_match.ok
          THEN MethodsLoop(protocol_body, methods, k + 1,
                 [lines |-> Append(acc.lines, ParamVerdictLine(method, param_count)),
                  all_passed |-> AfterParamVerdict(acc.all_passed, param_count)])
          ELSE MethodsLoop(protocol_body, methods, k + 1, acc)

RECURSIVE ProtocolsLoop(_, _, _)
\* for protocol_name, protocol_body in protocols: ...
ProtocolsLoop(protocols, k, acc) ==
  IF k > Len(protocols) THEN acc
  ELSE LET protocol_name == protocols[k].name
           protocol_body == protocols[k].body
           methods == FindAllMethods(protocol_body, 1)
           method_count == Len(methods)
           head == acc.lines \o
                   <<Line("protocol", protocol_name, "", 0, 0, TRUE),
                     Line("method_count", <<>>, "", method_count, 0, TRUE),
                     CountVerdictLine(method_count)>>
           inner == MethodsLoop(protocol_body, methods, 1,
                      [lines |-> head,
                       all_passed |-> AfterCountVerdict(acc.all_passed, method_count)])
       IN ProtocolsLoop(protocols, k + 1,
            [lines |-> Append(inner.lines, Plain("blank")),
             all_passed |-> inner.all_passed])

AggregateLines(all_passed) ==
  IF all_passed THEN <<Plain("result_header"), Plain("success_set")>>
  ELSE <<Plain("result_header"), Line("failure_set", <<>>, "", 0, 0, FALSE)>>

\* a variant that folds the missing file into the failure message set
ProtocolNotFound_AsFailure == AggregateLines(FALSE)

\* print("❌ 协议文件不存在")
ProtocolNotFoundLines == <<Plain("not_found")>>

\* check_protocol_complexity on an existing file with the given content
ProtocolReport(text) ==
  LET protocols == FindAllProtocols(text, 1)
      r == ProtocolsLoop(protocols, 1,
             [lines |-> <<Plain("protocol_header")>>, all_passed |-> TRUE])
  IN [lines |-> r.lines \o AggregateLines(r.all_passed),
      all_passed |-> r.all_passed]

\* ------------------------------------------------------------------------
\* check_method_naming:  func\s+(\w+)  over the whole content
\* ------------------------------------------------------------------------
MatchFuncNameAt(s, i) ==
  LET a == i + Len(KwFunc)
      b == SpanSpace(s, a)
      c == SpanWord(s, b)
  IN IF StartsWith(s, i, KwFunc) /\ b > a /\ c > b
     THEN [ok |-> TRUE, name |-> Slice(s, b, c - 1), end |-> c - 1]
     ELSE [ok |-> FALSE, name |-> <<>>, end |-> i]

RECURSIVE FindAllFuncNames(_, _)
FindAllFuncNames(s, i) ==
  IF i > Len(s) THEN <<>>
  ELSE LET m == MatchFuncNameAt(s, i)
       IN IF m.ok THEN <<m.name>> \o FindAllFuncNames(s, m.end + 1)
          ELSE FindAllFuncNames(s, i + 1)

\* len(method) <= 6 and not '_' in method
IsSimpleName(method) ==
  Len(method) <= SimpleNameLen /\ \A k \in 1..Len(method) : method[k] # "_"

\* the lines printed up to the ratio line; crashed: len(methods) = 0 divides by zero
NamingReport(text) ==
  LET methods == FindAllFuncNames(text, 1)
      simple == Cardinality({k \in 1..Len(methods) : IsSimpleName(methods[k])})
      complex == Len(methods) - simple
      first == <<Plain("naming_header"),
                 Line("simple_names", <<>>, "", simple, 0, TRUE),
                 IF complex > 0 THEN Line("complex_names", <<>>, "", complex, 0, TRUE)
                 ELSE Plain("all_simple")>>
  IN IF Len(methods) = 0
     THEN [lines |-> first, crashed |-> TRUE]
     ELSE [lines |-> Append(first, Line("ratio", <<>>, "", simple, Len(methods), TRUE)),
           crashed |-> FALSE]

\* ------------------------------------------------------------------------
\* check_implementation_complexity
\* ------------------------------------------------------------------------
\* \b at the gap before index i
Boundary(s, i) ==
  LET before == i > 1 /\ i - 1 <= Len(s) /\ IsWord(s[i - 1])
      after == i >= 1 /\ i <= Len(s) /\ IsWord(s[i])
  IN before # after

RECURSIVE CountSubstring(_, _, _)
\* a variant without the \b anchors: occurrences inside longer identifiers count
CountSubstring(s, i, kw) ==
  IF i > Len(s) THEN 0
  ELSE IF StartsWith(s, i, kw) THEN 1 + CountSubstring(s, i + Len(kw), kw)
       ELSE CountSubstring(s, i + 1, kw)

RECURSIVE CountWord(_, _, _)
\* len(re.findall(r'\bkw\b', content))
CountWord(s, i, kw) ==
  IF i > Len(s) THEN 0
  ELSE IF StartsWith(s, i, kw) /\ Boundary(s, i) /\ Boundary(s, i + Len(kw))
       THEN 1 + CountWord(s, i + Len(kw), kw)
       ELSE CountWord(s, i + 1, kw)

\* len(content.split('\n'))
LineCount(s) == Len(Split(s, 1, "\n"))

ComplexityScore(s) ==
  CountWord(s, 1, KwIf) + CountWord(s, 1, KwFor) + CountWord(s, 1, KwGuard)

ComplexityVerdictLine(file, complexity_score) ==
  IF complexity_score < ComplexityLimit
  THEN Line("complexity_ok", <<>>, file, complexity_score, ComplexityLimit, TRUE)
  ELSE Line("complexity_high", <<>>, file, complexity_score, ComplexityLimit, FALSE)

ImplFiles == <<"SimpleTagManager.swift", "SimpleProjectManager.swift">>

\* the lines of one implementation file that exists
ImplFileLines(file, text) ==
  LET complexity_score == ComplexityScore(text)
  IN <<Line("file", <<>>, file, 0, 0, TRUE),
       Line("impl_methods", <<>>, file, Len(FindAllFuncNames(text, 1)), 0, TRUE),
       Line("lines", <<>>, file, LineCount(text), 0, TRUE),
       Line("score", <<>>, file, complexity_score, 0, TRUE),
       ComplexityVerdictLine(file, complexity_score)>>

\* if not os.path.exists(file_path): continue
ImplMissingLines(file) == <<>>

RECURSIVE ImplLoop(_, _, _)
ImplLoop(exists, texts, k) ==
  IF k > Len(ImplFiles) THEN <<>>
  ELSE (IF exists[k] THEN ImplFileLines(ImplFiles[k], texts[k])
        ELSE ImplMissingLines(ImplFiles[k]))
       \o ImplLoop(exists, texts, k + 1)

ImplReport(exists, texts) == <<Plain("impl_header")>> \o ImplLoop(exists, texts, 1)

\* ------------------------------------------------------------------------
\* The input texts: definitions files rendered from a list of declarations
\* ------------------------------------------------------------------------
\* most operations of a generated interface
MaxOps == 6

\* most parameters of a generated operation
MaxParams == 4

\* most interfaces of a generated definitions file
MaxIfaces == 3

OpNames == <<<<"a">>, <<"b">>, <<"c">>, <<"d">>, <<"e">>, <<"h">>, <<"k">>, <<"m">>>>

IfaceNames == <<<<"P">>, <<"Q">>, <<"R">>, <<"S">>, <<"T">>>>

RECURSIVE ParamText(_, _)
\* k parameters x separated by a comma (and a space when spaced)
ParamText(k, spaced) ==
  IF k = 0 THEN <<>>
  ELSE IF k = 1 THEN <<"x">>
  ELSE ParamText(k - 1, spaced) \o (IF spaced THEN <<",", " ", "x">> ELSE <<",", "x">>)

\* a parameter text with the number of its non-empty segments
ParamTexts ==
  {[text |-> ParamText(k, sp), n |-> k] : k \in 0..MaxParams, sp \in BOOLEAN}
  \cup {[text |-> <<" ">>, n |-> 0],
        [text |-> <<"x", ",", " ", ",", "y">>, n |-> 2],
        [text |-> <<" ", "x", ":", "T", ",", " ">>, n |-> 1]}

NoParams == [text |-> <<>>, n |-> 0]

Op(name, pt) == [kind |-> "op", name |-> name, params |-> pt.text, n |-> pt.n]

\* a property requirement, var v { get }: an inner brace pair
Prop == [kind |-> "prop", name |-> <<"v">>, params |-> <<>>, n |-> 0]

\* an operation whose parameter list is never closed
OpenParen(name) == [kind |-> "openparen", name |-> name, params |-> <<"x">>, n |-> 1]

RenderMember(mb) ==
  IF mb.kind = "prop"
  THEN <<" ", "v", "a", "r", " ", "v", " ", "{", " ", "g", "e", "t", " ", "}", "\n">>
  ELSE <<" ">> \o KwFunc \o <<" ">> \o mb.name \o <<"(">> \o mb.params
       \o (IF mb.kind = "op" THEN <<")", "\n">> ELSE <<"\n">>)

RECURSIVE RenderMembers(_, _)
RenderMembers(members, k) ==
  IF k > Len(members) THEN <<>>
  ELSE RenderMember(members[k]) \o RenderMembers(members, k + 1)

RenderIface(name, d) ==
  KwProtocol \o <<" ">> \o name \o <<" ", "{", "\n">>
  \o RenderMembers(d.members, 1)
  \o (IF d.closed THEN <<"}", "\n">> ELSE <<>>)

RECURSIVE RenderFile(_, _)
\* the k-th interface of a file is named IfaceNames[k]
RenderFile(decls, k) ==
  IF k > Len(decls) THEN <<>>
  ELSE RenderIface(IfaceNames[k], decls[k]) \o RenderFile(decls, k + 1)

Iface(members) == [members |-> members, closed |-> TRUE]

\* n operations a, b, c, ... without parameters
Ops0(n) == [k \in 1..n |-> Op(OpNames[k], NoParams)]

\* ... with the operation at pos given the parameter text pt
OpsAt(n, pos, pt) ==
  [k \in 1..n |-> Op(OpNames[k], IF k = pos THEN pt ELSE NoParams)]

LongNames == {<<"r","e","l","o","a","d","A","l","l">>, <<"g","e","t","_","x">>,
              <<"r","e","f","r","e","s">>}

CleanIfaces ==
  {Iface(Ops0(n)) : n \in 0..MaxOps}
  \cup {Iface(OpsAt(n, n, pt)) : n \in 1..MaxOps, pt \in ParamTexts}
  \cup {Iface(OpsAt(3, 1, pt)) : pt \in ParamTexts}
  \cup {Iface(<<Op(nm, NoParams)>>) : nm \in LongNames}

\* two operations of the same name (overloads) with different parameter lists
OverloadIfaces ==
  {Iface(<<Op(OpNames[1], [text |-> ParamText(j, FALSE), n |-> j]),
           Op(OpNames[1], [text |-> ParamText(k, FALSE), n |-> k])>>)
     : j \in 0..MaxParams, k \in 0..MaxParams}

\* units that the patterns cannot delimit: an inner brace pair, a parameter
\* list or a body that is never closed
MalformedIfaces ==
  {Iface(<<Prop>> \o Ops0(n)) : n \in 0..MaxOps}
  \cup {Iface(Ops0(n) \o <<Prop>>) : n \in 0..MaxOps}
  \cup {Iface(<<OpenParen(OpNames[MaxOps + 1])>> \o Ops0(n)) : n \in 0..2}
  \cup {Iface(Ops0(n) \o <<OpenParen(OpNames[MaxOps + 1])>>) : n \in 0..2}
  \cup {[members |-> Ops0(n), closed |-> FALSE] : n \in 0..2}

AllIfaces == CleanIfaces \cup OverloadIfaces \cup MalformedIfaces

SmallIfaces ==
  {Iface(Ops0(0)), Iface(Ops0(1)), Iface(Ops0(MaxOps)),
   Iface(OpsAt(2, 1, [text |-> ParamText(MaxParams, TRUE), n |-> MaxParams]))}

RECURSIVE SeqsOver(_, _)
\* the sequences over S of length n
SeqsOver(S, n) ==
  IF n = 0 THEN {<<>>}
  ELSE {Append(q, x) : q \in SeqsOver(S, n - 1), x \in S}

DefsDecls ==
  {<<d>> : d \in AllIfaces}
  \cup {<<d, e>> : d \in AllIfaces, e \in SmallIfaces}
  \cup {<<e, d>> : d \in AllIfaces, e \in SmallIfaces}
  \cup UNION {SeqsOver(SmallIfaces, n) : n \in 0..MaxIfaces}

SmallDefsDecls == {<<Iface(Ops0(2))>>}

\* ------------------------------------------------------------------------
\* The input texts: implementation files with known keyword counts
\* ------------------------------------------------------------------------
MaxIf == 12

MaxFor == 9

MaxGuard == 4

RECURSIVE Rep(_, _)
Rep(chunk, n) == IF n = 0 THEN <<>> ELSE chunk \o Rep(chunk, n - 1)

\* words that contain a keyword without being one, and one method
ImplHeader ==
  <<"e","l","i","f"," ","i","f","f","y"," ","_","i","f"," ","f","o","r","_"," ",
    "x","f","o","r"," ","g","u","a","r","d","s","\n",
    "f","u","n","c"," ","r","u","n","(",")","\n">>

RenderImpl(d) ==
  ImplHeader
  \o Rep(<<"i","f"," ">>, d.nIf)
  \o Rep(<<"f","o","r","(">>, d.nFor)
  \o Rep(<<"g","u","a","r","d","\n">>, d.nGuard)

ImplDecl(i, f, g) == [nIf |-> i, nFor |-> f, nGuard |-> g]

NoImpl == ImplDecl(0, 0, 0)

ImplDecls == {ImplDecl(i, f, g) : i \in 0..MaxIf, f \in 0..MaxFor, g \in 0..MaxGuard}

\* a present file with the given counts, or an absent one
Present(d) == [exists |-> TRUE, decl |-> d]

Absent == [exists |-> FALSE, decl |-> NoImpl]

AllImpl == {Present(d) : d \in ImplDecls} \cup {Absent}

SmallImpl == {Absent, Present(ImplDecl(1, 1, 1)), Present(ImplDecl(MaxIf, MaxFor, 0))}

ImplPairs ==
  {<<x, y>> : x \in AllImpl, y \in {Absent, Present(ImplDecl(MaxIf, MaxFor, 0))}}
  \cup {<<Present(ImplDecl(1, 1, 1)), x>> : x \in AllImpl}

SmallImplPairs == {<<Absent, Absent>>, <<Present(ImplDecl(1, 0, 1)), Absent>>}

MissingDefsImplPairs == {<<x, y>> : x \in SmallImpl, y \in SmallImpl}

\* ------------------------------------------------------------------------
\* linus-data-converter.py: a record is a function from the keys it has
\* ------------------------------------------------------------------------
\* Python's None (what dict.get returns without a default)
None == "<None>"

\* dict.get(key, default)
Get(d, key, default) == IF key \in DOMAIN d THEN d[key] ELSE default

\* {} : the dict without keys
EmptyDict == [k \in {} |-> 0]

\* hashlib.sha256(hash_input.encode()).hexdigest()[:16]: the digest is kept
\* as the term of its input, 16 hexadecimal digits long
Sha256Hex16(hash_input) == [of |-> hash_input, hexlen |-> 16]

NoDigest == [of |-> "", hexlen |-> 0]

\* f"sha256:{simple_hash}"  and  ""
TaggedChecksum(simple_hash) == [tag |-> "sha256:", digest |-> simple_hash]

EmptyChecksum == [tag |-> "", digest |-> NoDigest]

\* the body of the loop of convert_to_linus_format for one project
ConvertProject(project, now) ==
  LET fs_info == Get(project, "fileSystemInfo", EmptyDict)
      git_info == Get(project, "gitInfo", EmptyDict)
      old_checksum == Get(project, "checksum", "")
      hash_input == Get(project, "path", "") \o ToString(Get(project, "lastModified", 0))
  IN [id |-> Get(project, "id", None),
      name |-> Get(project, "name", None),
      path |-> Get(project, "path", None),
      tags |-> Get(project, "tags", <<>>),
      mtime |-> Get(fs_info, "modificationTime", 0),
      size |-> Get(fs_info, "size", 0),
      created |-> Get(project, "lastModified", 0),
      git_commits |-> Get(git_info, "commitCount", 0),
      git_last_commit |-> Get(git_info, "lastCommitDate", 0),
      checksum |-> IF old_checksum # ""
                   THEN TaggedChecksum(Sha256Hex16(hash_input))
                   ELSE EmptyChecksum,
      checked |-> now]

\* the records of the backup file: every key may be missing
FullProject ==
  [id |-> "id1", name |-> "app", path |-> "/p", tags |-> <<"swift">>,
   fileSystemInfo |-> [modificationTime |-> 7, size |-> 9],
   lastModified |-> 3,
   gitInfo |-> [commitCount |-> 2, lastCommitDate |-> 5],
   checksum |-> "3_1"]

ProjectKeys == DOMAIN FullProject

Restrict(f, S) == [k \in S |-> f[k]]

Projects ==
  {Restrict(FullProject, S) : S \in SUBSET ProjectKeys}
  \cup {[FullProject EXCEPT !.fileSystemInfo = EmptyDict, !.gitInfo = EmptyDict],
        [FullProject EXCEPT !.checksum = ""],
        [FullProject EXCEPT !.path = "/p1", !.lastModified = 2, !.tags = <<>>]}

SmallProjects == {FullProject, Restrict(FullProject, {"name", "checksum"})}

BackupData ==
  {<<>>} \cup {<<p>> : p \in Projects} \cup {<<p, q>> : p \in SmallProjects, q \in SmallProjects}

\* the values of int(datetime.now().timestamp()) during a run
Times == {100, 101}

\* ------------------------------------------------------------------------
\* State
\* ------------------------------------------------------------------------
VARIABLES
  prog,          \* which script runs: "checker" or "converter"
  pc,            \* where the run is: the next call of __main__, "end", "exited"
  defsExists,    \* os.path.exists(protocols_file)
  decl,          \* the declarations the definitions file was written from
  content,       \* the text of the definitions file
  impl,          \* per implementation file: exists, and the counts it was written from
  implContent,   \* per implementation file: its text
  out,           \* standard output, line by line
  all_passed,    \* all_passed of check_protocol_complexity
  exit_status,   \* the exit status of the process (-1 while it runs)
  traceback,     \* the uncaught exception, "" when there is none
  backupExists,  \* os.path.exists(backup_file)
  original_data, \* the list loaded from the backup file
  written,       \* whether projects-linus-format.json was written
  linus_projects \* the list written to it

vars == <<prog, pc, defsExists, decl, content, impl, implContent, out, all_passed,
          exit_status, traceback, backupExists, original_data, written, linus_projects>>

checkerVars == <<defsExists, decl, content, impl, implContent, all_passed>>

converterVars == <<backupExists, original_data, written, linus_projects>>

ImplTexts(pair) ==
  [k \in 1..2 |-> IF pair[k].exists THEN RenderImpl(pair[k].decl) ELSE <<>>]

InitRun ==
  /\ out = <<>>
  /\ all_passed = TRUE
  /\ exit_status = -1
  /\ traceback = ""
  /\ written = FALSE
  /\ linus_projects = <<>>

InitChecker ==
  /\ prog = "checker"
  /\ pc = "protocol"
  /\ \/ /\ defsExists = TRUE
        /\ decl \in DefsDecls
        /\ impl \in SmallImplPairs
     \/ /\ defsExists = TRUE
        /\ decl \in SmallDefsDecls
        /\ impl \in ImplPairs
     \/ /\ defsExists = FALSE
        /\ decl = <<>>
        /\ impl \in MissingDefsImplPairs
  /\ content = RenderFile(decl, 1)
  /\ implContent = ImplTexts(impl)
  /\ backupExists = FALSE
  /\ original_data = <<>>

InitConverter ==
  /\ prog = "converter"
  /\ pc = "convert"
  /\ defsExists = FALSE
  /\ decl = <<>>
  /\ content = <<>>
  /\ impl = <<Absent, Absent>>
  /\ implContent = ImplTexts(impl)
  /\ \/ backupExists = TRUE /\ original_data \in BackupData
     \/ backupExists = FALSE /\ original_data = <<>>

Init == InitRun /\ (InitChecker \/ InitConverter)

\* ------------------------------------------------------------------------
\* Actions: the calls of __main__ of interface-complexity-check.py
\* ------------------------------------------------------------------------
CheckProtocolComplexity ==
  /\ prog = "checker" /\ pc = "protocol"
  /\ IF ~defsExists
     THEN /\ out' = out \o ProtocolNotFoundLines
          /\ all_passed' = all_passed
     ELSE LET r == ProtocolReport(content)
          IN /\ out' = out \o r.lines
             /\ all_passed' = r.all_passed
  /\ pc' = "naming"
  /\ UNCHANGED <<prog, defsExists, decl, content, impl, implContent, exit_status,
                 traceback, converterVars>>

CheckMethodNaming ==
  /\ prog = "checker" /\ pc = "naming"
  /\ IF ~defsExists
     THEN /\ pc' = "impl"
          /\ UNCHANGED <<out, exit_status, traceback>>
     ELSE LET r == NamingReport(content)
          IN /\ out' = out \o r.lines
             /\ IF r.crashed
                THEN /\ pc' = "exited"
                     /\ exit_status' = 1
                     /\ traceback' = "ZeroDivisionError"
                ELSE /\ pc' = "impl"
                     /\ UNCHANGED <<exit_status, traceback>>
  /\ UNCHANGED <<prog, checkerVars, converterVars>>

CheckImplementationComplexity ==
  /\ prog = "checker" /\ pc = "impl"
  /\ out' = out \o ImplReport([k \in 1..2 |-> impl[k].exists], implContent)
  /\ pc' = "end"
  /\ UNCHANGED <<prog, checkerVars, exit_status, traceback, converterVars>>

\* the interpreter reaches the end of the script
ExitNormally ==
  /\ pc = "end"
  /\ pc' = "exited"
  /\ exit_status' = 0
  /\ UNCHANGED <<prog, checkerVars, out, traceback, converterVars>>

\* ------------------------------------------------------------------------
\* Action: convert_to_linus_format
\* ------------------------------------------------------------------------
ConvertToLinusFormat ==
  /\ prog = "converter" /\ pc = "convert"
  /\ IF ~backupExists
     THEN /\ out' = Append(out, Plain("backup_not_found"))
          /\ pc' = "end"
          /\ UNCHANGED <<written, linus_projects, exit_status, traceback>>
     ELSE \E now \in [1..Len(original_data) -> Times] :
            /\ \A i \in 1..Len(original_data) : \A j \in 1..Len(original_data) :
                 i <= j => now[i] <= now[j]
            /\ linus_projects' =
                 [i \in 1..Len(original_data) |-> ConvertProject(original_data[i], now[i])]
            /\ written' = TRUE
            /\ IF Len(original_data) = 0
               THEN /\ out' = out \o <<Line("read", <<>>, "", 0, 0, TRUE),
                                       Line("converted", <<>>, "", 0, 0, TRUE),
                                       Line("total", <<>>, "", 0, 0, TRUE)>>
                    /\ pc' = "exited"
                    /\ exit_status' = 1
                    /\ traceback' = "ZeroDivisionError"
               ELSE /\ out' = out \o
                        <<Line("read", <<>>, "", Len(original_data), 0, TRUE),
                          Line("converted", <<>>, "", Len(original_data), 0, TRUE),
                          Line("total", <<>>, "", Len(original_data), 0, TRUE),
                          Line("tagged", <<>>, "",
                               Cardinality({i \in 1..Len(original_data) :
                                  Get(original_data[i], "tags", <<>>) # <<>>}),
                               Len(original_data), TRUE),
                          Line("git", <<>>, "",
                               Cardinality({i \in 1..Len(original_data) :
                                  Get(Get(original_data[i], "gitInfo", EmptyDict),
                                      "commitCount", 0) > 0}),
                               Len(original_data), TRUE),
                          Plain("verdict")>>
                    /\ pc' = "end"
                    /\ UNCHANGED <<exit_status, traceback>>
  /\ UNCHANGED <<prog, checkerVars, backupExists, original_data>>

Next ==
  \/ CheckProtocolComplexity
  \/ CheckMethodNaming
  \/ CheckImplementationComplexity
  \/ ExitNormally
  \/ ConvertToLinusFormat

Spec == Init /\ [][Next]_vars

\* ------------------------------------------------------------------------
\* Reading the report
\* ------------------------------------------------------------------------
Lines(kinds) == {i \in 1..Len(out) : out[i].kind \in kinds}

\* check_protocol_complexity has run on a definitions file that exists
ProtocolChecked == prog = "checker" /\ defsExists /\ pc # "protocol"

\* check_implementation_complexity has run
ImplChecked == prog = "checker" /\ (pc = "end" \/ (pc = "exited" /\ traceback = ""))

RuleVerdicts == Lines({"count_pass", "count_fail", "param"})

\* the operations an interface declares
DeclaredOps(d) == SelectSeq(d.members, LAMBDA mb : mb.kind # "prop")

\* the interface is delimited cleanly: closed, no inner braces, no open list
CleanIface(d) == d.closed /\ \A j \in 1..Len(d.members) : d.members[j].kind = "op"

\* the line that opens the section of the k-th interface of the file, 0 if none
SectionStart(k) ==
  LET S == {i \in Lines({"protocol"}) : out[i].name = IfaceNames[k]}
  IN IF S = {} THEN 0 ELSE CHOOSE i \in S : \A j \in S : i <= j

\* the section of the k-th interface reports n operations with the right marker
CountReported(k, n) ==
  LET i == SectionStart(k)
  IN /\ i > 0
     /\ i + 2 <= Len(out)
     /\ out[i + 1].kind = "method_count" /\ out[i + 1].n = n
     /\ out[i + 2].kind = (IF n <= MethodLimit THEN "count_pass" ELSE "count_fail")
     /\ out[i + 2].n = n

\* the j-th operation line of the section of the k-th interface reports op
ParamReported(k, j, op) ==
  LET i == SectionStart(k) + 2 + j
  IN /\ SectionStart(k) > 0
     /\ i <= Len(out)
     /\ out[i].kind = "param"
     /\ out[i].name = op.name
     /\ out[i].n = op.n
     /\ out[i].ok = (op.n <= ParamLimit)

ImplScore(d) == d.nIf + d.nFor + d.nGuard

\* ------------------------------------------------------------------------
\* Claims
\* ------------------------------------------------------------------------
\* C1: once check_protocol_complexity has rendered the aggregate section, the
\* success message set is there iff every operation-count and parameter-count
\* verdict line passed, the failure set iff one of them failed, all_passed
\* agrees, and this stays so through the naming and implementation checks.
C1_AggregateIsConjunction ==
  ProtocolChecked =>
    LET allOk == \A i \in RuleVerdicts : out[i].ok
    IN /\ Cardinality(Lines({"success_set"})) = (IF allOk THEN 1 ELSE 0)
       /\ Cardinality(Lines({"failure_set"})) = (IF allOk THEN 0 ELSE 1)
       /\ all_passed = allOk

\* C1 witness: a finished run whose failed verdict is followed by passing ones
C1_Witness ==
  /\ ProtocolChecked /\ pc = "exited"
  /\ Lines({"failure_set"}) # {}
  /\ \E i \in RuleVerdicts : \E j \in RuleVerdicts : i < j /\ ~out[i].ok /\ out[j].ok

\* C2: every interface of the definitions text that declares N operations is
\* reported with operation count N, and with the pass marker iff N <= 5.
C2_OperationCountReported ==
  ProtocolChecked =>
    \A k \in 1..Len(decl) : CountReported(k, Len(DeclaredOps(decl[k])))

\* C3: in a cleanly delimited definitions text, the line of every listed
\* operation carries the number of non-empty segments of that operation's own
\* parameter text, and the failure marker iff that number is > 3.
C3_ParameterCountReported ==
  (ProtocolChecked /\ \A k \in 1..Len(decl) : CleanIface(decl[k])) =>
    \A k \in 1..Len(decl) : \A j \in 1..Len(decl[k].members) :
      ParamReported(k, j, decl[k].members[j])

\* C4: the exit status of the checker is zero when all_passed is true at the
\* end of the protocol check and non-zero when a rule failed.
C4_ExitStatusReflectsAggregate ==
  (ProtocolChecked /\ pc = "exited") => ((exit_status = 0) = all_passed)

\* C5: when the definitions file is missing the run prints one file-not-found
\* line for it, and no success set, failure set, or per-interface or
\* per-operation line or marker.
C5_MissingDefinitionsFile ==
  (prog = "checker" /\ ~defsExists /\ pc # "protocol") =>
    /\ Cardinality(Lines({"not_found"})) = 1
    /\ Lines({"success_set", "failure_set", "result_header", "protocol",
              "method_count", "count_pass", "count_fail", "param"}) = {}

\* C5 witness: a finished run without the definitions file that went on to an
\* implementation file
C5_Witness ==
  /\ prog = "checker" /\ ~defsExists /\ pc = "exited"
  /\ Len(out) > 0 /\ out[1].kind = "not_found"
  /\ Lines({"complexity_ok", "complexity_high"}) # {}

\* C6: every absent implementation file is reported as source-not-found, and
\* every present one is still analysed.
C6_AbsentImplementationReported ==
  ImplChecked =>
    \A k \in 1..Len(ImplFiles) :
      IF impl[k].exists
      THEN \E i \in Lines({"score"}) : out[i].file = ImplFiles[k]
      ELSE \E i \in Lines({"source_not_found"}) : out[i].file = ImplFiles[k]

\* C7: for every implementation file that is present, the reported
\* complexityScore is the number of whole-word if, for and guard occurrences
\* of its text, the pass marker is printed iff the score is < 20 and the
\* warning otherwise, and every present file is reported whatever the verdict
\* of the files before it.
C7_ComplexityScore ==
  ImplChecked =>
    \A k \in 1..Len(ImplFiles) :
      impl[k].exists =>
        LET score == ImplScore(impl[k].decl)
            mine(kinds) == {i \in Lines(kinds) : out[i].file = ImplFiles[k]}
        IN /\ Cardinality(mine({"score"})) = 1
           /\ \A i \in mine({"score"}) : out[i].n = score
           /\ Cardinality(mine({"complexity_ok"})) = (IF score < ComplexityLimit THEN 1 ELSE 0)
           /\ Cardinality(mine({"complexity_high"})) = (IF score < ComplexityLimit THEN 0 ELSE 1)
           /\ traceback = ""

\* C7 witness: a finished run where the first file scores exactly 20 and is
\* warned about, and the second file is analysed after it
C7_Witness ==
  /\ ImplChecked /\ pc = "exited" /\ exit_status = 0
  /\ impl[1].exists /\ impl[2].exists
  /\ ImplScore(impl[1].decl) = ComplexityLimit
  /\ \E i \in Lines({"complexity_high"}) : \E j \in Lines({"complexity_high", "complexity_ok"}) :
       i < j /\ out[i].file = ImplFiles[1] /\ out[j].file = ImplFiles[2]

\* C8: for every content of the definitions file the run reaches its end with
\* the protocol, naming and implementation sections all rendered, or reports
\* the whole run as failed.
C8_RunCompletes ==
  (prog = "checker" /\ defsExists /\ pc = "exited") =>
    \/ /\ Lines({"result_header"}) # {}
       /\ Lines({"ratio"}) # {}
       /\ Lines({"impl_header"}) # {}
    \/ Lines({"run_failed"}) # {}

\* C9: the converter writes one record per input record, in order, with
\* exactly the eleven keys; a field missing from the source takes the default
\* of its type (0, "" or the empty sequence); the checksum of a record that
\* had one is the tag followed by a 16-digit digest of its path and time.
C9_ConverterRecordContract ==
  (prog = "converter" /\ written) =>
    /\ Len(linus_projects) = Len(original_data)
    /\ \A i \in 1..Len(original_data) :
         LET src == original_data[i]
             rec == linus_projects[i]
             fs == IF "fileSystemInfo" \in DOMAIN src THEN src.fileSystemInfo ELSE EmptyDict
             git == IF "gitInfo" \in DOMAIN src THEN src.gitInfo ELSE EmptyDict
         IN /\ DOMAIN rec = {"id", "name", "path", "tags", "mtime", "size", "created",
                             "git_commits", "git_last_commit", "checksum", "checked"}
            /\ \A key \in {"id", "name", "path"} :
                 rec[key] = (IF key \in DOMAIN src THEN src[key] ELSE "")
            /\ rec.tags = (IF "tags" \in DOMAIN src THEN src.tags ELSE <<>>)
            /\ rec.mtime = (IF "modificationTime" \in DOMAIN fs THEN fs.modificationTime ELSE 0)
            /\ rec.size = (IF "size" \in DOMAIN fs THEN fs.size ELSE 0)
            /\ rec.created = (IF "lastModified" \in DOMAIN src THEN src.lastModified ELSE 0)
            /\ rec.git_commits = (IF "commitCount" \in DOMAIN git THEN git.commitCount ELSE 0)
            /\ rec.git_last_commit =
                 (IF "lastCommitDate" \in DOMAIN git THEN git.lastCommitDate ELSE 0)
            /\ IF "checksum" \in DOMAIN src /\ src.checksum # ""
               THEN rec.checksum.tag = "sha256:" /\ rec.checksum.digest.hexlen = 16
               ELSE rec.checksum = EmptyChecksum
            /\ rec.checked \in Times

\* C10: an interface that cannot be delimited cleanly is either flagged (a
\* warning for the unit, or the analysis of the file failed explicitly) or its
\* printed operation count and parameter counts are the declared ones.
C10_MalformedUnitsFlagged ==
  ProtocolChecked =>
    \A k \in 1..Len(decl) :
      ~CleanIface(decl[k]) =>
        \/ Lines({"malformed_warning", "analysis_failed"}) # {}
        \/ /\ CountReported(k, Len(DeclaredOps(decl[k])))
           /\ \A j \in 1..Len(DeclaredOps(decl[k])) :
                ParamReported(k, j, DeclaredOps(decl[k])[j])

====
